---------------------------- MODULE Spec2Model ----------------------------
(***************************************************************************)
(* A model of the propeller test rig host programs:                        *)
(*   - instruments_v6.py : the PyQt dashboard (CompactSerialMonitor and    *)
(*     its CompactAnalogGauge widgets), one action per Qt callback;        *)
(*   - meas.py           : the PWM sweep tool, one action per step of      *)
(*     main().                                                             *)
(* Text is a sequence of one-character strings.  A multi-character string  *)
(* inside such a sequence is a token: a byte >= 0x80 ("xC3"), a decoded    *)
(* non-ASCII character ("U+00E9") or a fixed message of the program        *)
(* ("Sent: ").  Numbers parsed by float() are exact rationals [n, d].      *)
(***************************************************************************)
EXTENDS Integers, Sequences, FiniteSets, TLC

\* ------------------------------------------------------------------------
\* Text helpers (Python str / bytes methods used by the two programs)
\* ------------------------------------------------------------------------

DigitChars == <<"0", "1", "2", "3", "4", "5", "6", "7", "8", "9">>

Digits == {DigitChars[i] : i \in 1..10}

DigitVal(c) == (CHOOSE i \in 1..10 : DigitChars[i] = c) - 1

\* str.strip() / str.split() whitespace, within the modelled alphabet
Whitespace == {" ", "\t", "\n", "\r"}

SetMin(S) == CHOOSE x \in S : \A y \in S : x <= y

SetMax(S) == CHOOSE x \in S : \A y \in S : x >= y

\* str.strip()
Strip(s) ==
    LET keep == {i \in 1..Len(s) : s[i] \notin Whitespace}
    IN  IF keep = {} THEN <<>> ELSE SubSeq(s, SetMin(keep), SetMax(keep))

\* str.count(c)
Count(s, c) == Cardinality({i \in 1..Len(s) : s[i] = c})

\* str.split(',')
RECURSIVE SplitComma(_)
SplitComma(s) ==
    LET at == {i \in 1..Len(s) : s[i] = ","}
    IN  IF at = {} THEN <<s>>
        ELSE LET i == SetMin(at)
             IN  <<SubSeq(s, 1, i - 1)>> \o SplitComma(SubSeq(s, i + 1, Len(s)))

\* str.split() with no argument: the whitespace-separated words
RECURSIVE SplitWords(_)
SplitWords(s) ==
    LET start == {i \in 1..Len(s) : s[i] \notin Whitespace}
    IN  IF start = {} THEN <<>>
        ELSE LET a    == SetMin(start)
                 stop == {i \in a..Len(s) : s[i] \in Whitespace}
                 b    == IF stop = {} THEN Len(s) + 1 ELSE SetMin(stop)
             IN  <<SubSeq(s, a, b - 1)>> \o SplitWords(SubSeq(s, b, Len(s)))

\* the decimal value of a sequence of digit characters
RECURSIVE DigitsValue(_)
DigitsValue(s) ==
    IF s = <<>> THEN 0
    ELSE 10 * DigitsValue(SubSeq(s, 1, Len(s) - 1)) + DigitVal(s[Len(s)])

\* f"{n}" for an integer n
RECURSIVE IntToStr(_)
IntToStr(n) ==
    IF n < 0 THEN <<"-">> \o IntToStr(0 - n)
    ELSE IF n < 10 THEN <<DigitChars[n + 1]>>
    ELSE IntToStr(n \div 10) \o <<DigitChars[(n % 10) + 1]>>

\* ------------------------------------------------------------------------
\* Exact rationals for Python floats
\* ------------------------------------------------------------------------

RECURSIVE GCD(_, _)
GCD(a, b) == IF b = 0 THEN a ELSE GCD(b, a % b)

Abs(x) == IF x < 0 THEN 0 - x ELSE x

RECURSIVE Pow10(_)
Pow10(k) == IF k = 0 THEN 1 ELSE 10 * Pow10(k - 1)

\* the rational n/d (d > 0) in lowest terms
Rat(n, d) ==
    LET g == GCD(Abs(n), d)
    IN  [n |-> n \div g, d |-> d \div g]

RatOfInt(i) == [n |-> i, d |-> 1]

RatMul(a, b) == Rat(a.n * b.n, a.d * b.d)

\* a / b for b # 0
RatDiv(a, b) ==
    IF b.n > 0 THEN Rat(a.n * b.d, a.d * b.n)
    ELSE Rat((0 - a.n) * b.d, a.d * (0 - b.n))

RatGE(a, b) == a.n * b.d >= b.n * a.d

RatLE(a, b) == RatGE(b, a)

RatMin(a, b) == IF RatLE(a, b) THEN a ELSE b

RatMax(a, b) == IF RatGE(a, b) THEN a ELSE b

\* ------------------------------------------------------------------------
\* int() and float() on text that holds only digits, '.', '-' and spaces
\* ------------------------------------------------------------------------

ValueError == [ok |-> FALSE, exc |-> "ValueError", val |-> RatOfInt(0)]

IndexError == [ok |-> FALSE, exc |-> "IndexError", val |-> RatOfInt(0)]

Parsed(v) == [ok |-> TRUE, exc |-> "none", val |-> v]

Negated(r) ==
    IF r.ok THEN Parsed([n |-> 0 - r.val.n, d |-> r.val.d]) ELSE r

\* one or more digits
int_unsigned(body) ==
    IF body # <<>> /\ \A i \in 1..Len(body) : body[i] \in Digits
    THEN Parsed(RatOfInt(DigitsValue(body)))
    ELSE ValueError

\* the digits after the '.', if any
FractionDigits(body) ==
    IF \E i \in 1..Len(body) : body[i] = "."
    THEN Len(body) - SetMin({i \in 1..Len(body) : body[i] = "."})
    ELSE 0

\* digits with at most one '.', at least one digit
float_unsigned(body) ==
    IF /\ \E i \in 1..Len(body) : body[i] \in Digits
       /\ Count(body, ".") <= 1
       /\ \A i \in 1..Len(body) : body[i] \in Digits \cup {"."}
    THEN Parsed(Rat(DigitsValue(SelectSeq(body, LAMBDA c : c \in Digits)),
                    Pow10(FractionDigits(body))))
    ELSE ValueError

\* an optional leading '-', then digits
int_signed(t) ==
    IF t # <<>> /\ Head(t) = "-" THEN Negated(int_unsigned(Tail(t)))
    ELSE int_unsigned(t)

\* an optional leading '-', then a decimal
float_signed(t) ==
    IF t # <<>> /\ Head(t) = "-" THEN Negated(float_unsigned(Tail(t)))
    ELSE float_unsigned(t)

\* int(s): optional surrounding whitespace, optional sign, digits
py_int(s) == int_signed(Strip(s))

\* float(s): optional surrounding whitespace, optional sign, a decimal
py_float(s) == float_signed(Strip(s))

\* ------------------------------------------------------------------------
\* Bytes read from the serial port and their decoding
\* ------------------------------------------------------------------------

\* the modelled bytes >= 0x80: a two-byte UTF-8 lead, a continuation byte,
\* and a byte that is valid nowhere in UTF-8
Utf8Lead == {"xC3"}

Utf8Cont == {"xA9"}

HighBytes == Utf8Lead \cup Utf8Cont \cup {"xFF"}

\* bytes.decode('ascii'): fails on any byte >= 0x80
decode_ascii(raw) ==
    IF \E i \in 1..Len(raw) : raw[i] \in HighBytes
    THEN [ok |-> FALSE, text |-> <<>>]
    ELSE [ok |-> TRUE, text |-> raw]

\* bytes.decode('utf-8', errors='replace'): a lead byte followed by a
\* continuation byte is one character, every other byte >= 0x80 is U+FFFD
RECURSIVE decode_utf8_replace(_)
decode_utf8_replace(raw) ==
    IF raw = <<>> THEN <<>>
    ELSE IF Head(raw) \in Utf8Lead /\ Len(raw) >= 2 /\ raw[2] \in Utf8Cont
    THEN <<"U+00E9">> \o decode_utf8_replace(SubSeq(raw, 3, Len(raw)))
    ELSE IF Head(raw) \in HighBytes
    THEN <<"U+FFFD">> \o decode_utf8_replace(Tail(raw))
    ELSE <<Head(raw)>> \o decode_utf8_replace(Tail(raw))

decode_line_ascii_only(raw) == Strip(decode_ascii(raw).text)

\* the decoding chain of check_serial; the hex-dump fallback is never taken,
\* since decoding with errors='replace' does not raise
decode_line(raw) ==
    IF decode_ascii(raw).ok
    THEN Strip(decode_ascii(raw).text)
    ELSE Strip(decode_utf8_replace(raw))

\* ------------------------------------------------------------------------
\* Telemetry parsing (CompactSerialMonitor)
\* ------------------------------------------------------------------------

MinCommas == 4

is_csv_data_ge5(data) == Count(data, ",") >= MinCommas + 1

is_csv_data(data) == Count(data, ",") >= MinCommas

\* the characters process_serial_data keeps
NumericChars == Digits \cup {",", ".", "-", " "}

\* the literal 0.001 of both guards
SmallValue == Rat(1, 1000)

Zero == RatOfInt(0)

derive_power_unguarded(voltage, current) == RatMul(voltage, current)

derive_power(voltage, current) ==
    IF RatGE(current, SmallValue) THEN RatMul(voltage, current) ELSE Zero

ZeroDivisionError == [ok |-> FALSE, exc |-> "ZeroDivisionError", val |-> Zero]

derive_eff_guard_zero(thrust, power) ==
    IF RatGE(power, Zero)
    THEN IF power.n = 0 THEN ZeroDivisionError ELSE Parsed(RatDiv(thrust, power))
    ELSE Parsed(Zero)

derive_eff(thrust, power) ==
    IF RatGE(power, SmallValue)
    THEN IF power.n = 0 THEN ZeroDivisionError ELSE Parsed(RatDiv(thrust, power))
    ELSE Parsed(Zero)

\* words[0].strip() then float(): IndexError when the field holds no word
first_float(words) ==
    IF words = <<>> THEN IndexError ELSE py_float(Strip(words[1]))

\* float(parts[i].split()[0].strip())
first_word_float(part) == first_float(SplitWords(part))

NoSample ==
    [time_ms |-> Zero, thrust |-> Zero, current |-> Zero, voltage |-> Zero,
     rpm |-> Zero, power |-> Zero, eff |-> Zero]

\* What process_serial_data did: [called, exc, updated, sample].  exc is the
\* exception raised inside its try block ("none" when none is); it catches a
\* ValueError itself, any other one propagates to the caller.
NotCalled ==
    [called |-> FALSE, exc |-> "none", updated |-> FALSE, sample |-> NoSample]

NotUpdated == [NotCalled EXCEPT !.called = TRUE]

Raised(exc) == [NotUpdated EXCEPT !.exc = exc]

Updated(sample) == [NotUpdated EXCEPT !.updated = TRUE, !.sample = sample]

\* lines 660-671: the efficiency, then the sample that is stored
with_power(time_ms, thrust, current, voltage, rpm, power, eff) ==
    IF ~eff.ok THEN Raised(eff.exc)
    ELSE Updated([time_ms |-> time_ms, thrust |-> thrust, current |-> current,
                  voltage |-> voltage, rpm |-> rpm, power |-> power,
                  eff |-> eff.val])

\* lines 655-658: the power
with_values(time_ms, thrust, current, voltage, rpm, power) ==
    with_power(time_ms, thrust, current, voltage, rpm, power,
               derive_eff(thrust, power))

\* lines 649-653: the five conversions, in order; the first that fails
\* raises
with_fields(t, th, c, v, r) ==
    IF ~t.ok THEN Raised(t.exc)
    ELSE IF ~th.ok THEN Raised(th.exc)
    ELSE IF ~c.ok THEN Raised(c.exc)
    ELSE IF ~v.ok THEN Raised(v.exc)
    ELSE IF ~r.ok THEN Raised(r.exc)
    ELSE with_values(t.val, th.val, c.val, v.val, r.val,
                     derive_power(v.val, c.val))

with_parts(parts) ==
    IF Len(parts) >= 5
    THEN with_fields(py_int(Strip(parts[1])), py_float(Strip(parts[2])),
                     first_word_float(parts[3]), first_word_float(parts[4]),
                     first_word_float(parts[5]))
    ELSE NotUpdated

\* process_serial_data(data)
process_serial_data(data) ==
    with_parts(SplitComma(SelectSeq(data, LAMBDA c : c \in NumericChars)))

\* ------------------------------------------------------------------------
\* Gauges (CompactAnalogGauge)
\* ------------------------------------------------------------------------

GaugeKeys == {"thrust", "current", "voltage", "rpm", "power", "eff"}

gauge_config ==
    [k \in GaugeKeys |->
        [min |-> 0,
         max |-> CASE k = "thrust"  -> 5000
                   [] k = "current" -> 30
                   [] k = "voltage" -> 30
                   [] k = "rpm"     -> 15000
                   [] k = "power"   -> 1000
                   [] k = "eff"     -> 30]]

set_value_unclamped(key, value) == value

\* CompactAnalogGauge.set_value: the value the gauge stores
set_value(key, value) ==
    RatMax(RatOfInt(gauge_config[key].min),
           RatMin(value, RatOfInt(gauge_config[key].max)))

\* the start and the sweep of the needle's arc, in degrees
ArcStart == 180

ArcSweep == 180

\* paintEvent: value_ratio = (value - min_val) / (max_val - min_val)
value_ratio(key, value) ==
    RatDiv(Rat(value.n - gauge_config[key].min * value.d, value.d),
           RatOfInt(gauge_config[key].max - gauge_config[key].min))

\* paintEvent: needle_angle = 180 + value_ratio * 180
needle_angle(key, value) ==
    Rat(ArcStart * value_ratio(key, value).d
          + ArcSweep * value_ratio(key, value).n,
        value_ratio(key, value).d)

\* ------------------------------------------------------------------------
\* Rolling log
\* ------------------------------------------------------------------------

LogCapacity == 10

add_log_pop_last(entries, entry) ==
    LET appended == Append(entries, entry)
    IN  IF Len(appended) > LogCapacity
        THEN SubSeq(appended, 1, Len(appended) - 1)
        ELSE appended

\* add_log: append, then drop the oldest entry when more than 10 are held
add_log(entries, entry) ==
    LET appended == Append(entries, entry)
    IN  IF Len(appended) > LogCapacity THEN Tail(appended) ELSE appended

\* ------------------------------------------------------------------------
\* State
\* ------------------------------------------------------------------------

VARIABLES
    prog,             \* which program runs: "instruments_v6" or "meas"
    \* --- instruments_v6.py: CompactSerialMonitor
    ser,              \* self.ser: "None", "open" or "closed"
    log_file,         \* self.log_file: "None", "open" or "closed"
    log_file_path,    \* self.log_file_path: <<>> for "", else <<timestamp>>
    is_logging,       \* self.is_logging
    open_log_button,  \* whether the "Open Log" button is enabled
    power_slider,     \* self.power_slider.value()
    command_input,    \* self.command_input.text()
    thrust_value, current_value, voltage_value, rpm_value, power_value, eff_value,
    gauges,           \* self.gauges[key].value
    last_update_time, \* self.last_update_time
    time_label,       \* self.time_label text: <<>> for "Never", else <<time_ms>>
    time_stale,       \* the red style update_time_display gives time_label
    log_entries,      \* self.log_entries
    running,          \* the window is open (closeEvent has not run)
    \* --- meas.py: main
    pc,               \* the position in main()
    args,             \* the parsed command line
    pwm,              \* the loop variable
    out,              \* the lines written to the output
    exit_status,      \* <<>> while running, else <<status>>
    replies,          \* what each readline() returned, in order
    \* --- environment and history
    written,          \* every write to the serial port, in order
    disk,             \* the log files: path timestamp -> records
    now,              \* the clock, in seconds
    added,            \* every entry passed to add_log, in order
    last,             \* what the last handler did
    budget            \* the handler runs left

telemetry ==
    <<thrust_value, current_value, voltage_value, rpm_value, power_value,
      eff_value, gauges, last_update_time, time_label>>

logging == <<log_file, log_file_path, is_logging, open_log_button, disk>>

widgets == <<power_slider, command_input, time_stale>>

sweep == <<pc, args, pwm, out, exit_status, replies>>

vars ==
    <<prog, ser, logging, widgets, telemetry, log_entries, running, sweep,
      written, now, added, last, budget>>

\* ------------------------------------------------------------------------
\* Messages of the dashboard
\* ------------------------------------------------------------------------

ConnectedMsg == <<"Connected to <port> @ 115200 baud">>

ConnectErrorMsg == <<"Error connecting to <port>: <error>">>

RestartMsg == <<"Please check connection and restart with --port option">>

NotConnectedPowerMsg == <<"Not connected to serial port - power command not sent">>

NotConnectedMsg == <<"Not connected to serial port">>

PowerSendErrorMsg == <<"Power send error: <error>">>

SendErrorMsg == <<"Send error: <error>">>

ReadErrorMsg(exc) == <<"Read error: ", exc>>

SentMsg(cmd) == <<"Sent: ">> \o Strip(cmd)

StartedLoggingMsg(ts) == <<"Started logging to: instrument_log_">> \o IntToStr(ts)

OpenFailedMsg == <<"Failed to open log file: <error>">>

StoppedLoggingMsg == <<"Stopped logging. File saved">>

NoLogFileMsg == <<"Log file doesn't exist">>

NoEvent == [event |-> "init", line |-> <<>>, called |-> FALSE, exc |-> "none"]

Event(name) == [NoEvent EXCEPT !.event = name]

\* a step of meas.py in which the serial port raised SerialException
Failed(name) == [Event(name) EXCEPT !.exc = "SerialException"]

\* ------------------------------------------------------------------------
\* Power commands
\* ------------------------------------------------------------------------

SliderMin == 0

SliderMax == 1000

PowerOffset == 1000

\* QSlider.setValue: the value is bound to the range set by setRange(0, 1000)
slider_setValue(v) == IF v < SliderMin THEN SliderMin
                      ELSE IF v > SliderMax THEN SliderMax ELSE v

power_command_no_offset(slider) == <<"P", " ">> \o IntToStr(slider) \o <<"\n">>

\* cmd of send_power_value
power_command(slider) ==
    <<"P", " ">> \o IntToStr(PowerOffset + slider) \o <<"\n">>

\* The part of the state a send changes
Heap == [written |-> written, log_entries |-> log_entries, added |-> added,
         disk |-> disk]

Logged(h, entry) ==
    [h EXCEPT !.log_entries = add_log(@, entry), !.added = Append(@, entry)]

FileRecord(dir, text) == [ts |-> now, dir |-> dir, text |-> text]

\* self.log_file.write(...) when logging is enabled
ToLogFile(h, dir, text) ==
    IF is_logging /\ log_file # "None"
    THEN [h EXCEPT !.disk[log_file_path[1]] = Append(@, FileRecord(dir, text))]
    ELSE h

connected_always == TRUE

\* self.ser and self.ser.is_open
connected == ser = "open"

\* send_power_value on heap h with the slider at `slider`; write_ok is whether
\* ser.write returns (it raises otherwise)
send_power_value(h, slider, write_ok) ==
    LET cmd == power_command(slider)
    IN  IF connected
        THEN IF write_ok
             THEN ToLogFile(
                    Logged([h EXCEPT !.written =
                              Append(@, [by |-> "send_power_value", data |-> cmd])],
                           SentMsg(cmd)),
                    "TX", SentMsg(cmd))
             ELSE Logged(h, PowerSendErrorMsg)
        ELSE Logged(h, NotConnectedPowerMsg)

\* ------------------------------------------------------------------------
\* instruments_v6.py: the callbacks of CompactSerialMonitor
\* ------------------------------------------------------------------------

\* a callback of the dashboard can run
Dashboard == prog = "instruments_v6" /\ running /\ budget > 0

Ran(name) == budget' = budget - 1 /\ last' = Event(name)

SetHeap(h) ==
    /\ written' = h.written
    /\ log_entries' = h.log_entries
    /\ added' = h.added
    /\ disk' = h.disk

\* The operator drags the slider to v: valueChanged runs send_power_value,
\* then update_power_display
SliderMoved(v, write_ok) ==
    /\ Dashboard
    /\ v # power_slider
    /\ power_slider' = slider_setValue(v)
    /\ SetHeap(send_power_value(Heap, slider_setValue(v), write_ok))
    /\ Ran("slider")
    /\ UNCHANGED <<prog, ser, log_file, log_file_path, is_logging, open_log_button,
                   command_input, time_stale, telemetry, running, sweep, now>>

\* setValue(new_value) followed by the explicit send_power_value(): setValue
\* emits valueChanged, which runs send_power_value too, when the value changes
press(new_value, ok_signal, ok_call) ==
    LET v  == slider_setValue(new_value)
        h1 == IF v # power_slider
              THEN send_power_value(Heap, v, ok_signal)
              ELSE Heap
    IN  /\ power_slider' = v
        /\ SetHeap(send_power_value(h1, v, ok_call))

DeltaMin == 1

DeltaMax == 100

increase_power(delta, ok_signal, ok_call) ==
    /\ Dashboard
    /\ LET new_value == IF power_slider + delta > SliderMax THEN SliderMax
                        ELSE power_slider + delta
       IN  press(new_value, ok_signal, ok_call)
    /\ Ran("increase_power")
    /\ UNCHANGED <<prog, ser, log_file, log_file_path, is_logging, open_log_button,
                   command_input, time_stale, telemetry, running, sweep, now>>

decrease_power(delta, ok_signal, ok_call) ==
    /\ Dashboard
    /\ LET new_value == IF power_slider - delta < SliderMin THEN SliderMin
                        ELSE power_slider - delta
       IN  press(new_value, ok_signal, ok_call)
    /\ Ran("decrease_power")
    /\ UNCHANGED <<prog, ser, log_file, log_file_path, is_logging, open_log_button,
                   command_input, time_stale, telemetry, running, sweep, now>>

\* The operator types `text` and presses Enter
send_command(text, write_ok) ==
    /\ Dashboard
    /\ LET cmd == text \o <<"\n">>
       IN  IF connected
           THEN IF write_ok
                THEN /\ SetHeap(ToLogFile(
                          Logged([Heap EXCEPT !.written =
                                    Append(@, [by |-> "send_command", data |-> cmd])],
                                 SentMsg(cmd)),
                          "TX", SentMsg(cmd)))
                     /\ command_input' = <<>>
                ELSE /\ SetHeap(Logged(Heap, SendErrorMsg))
                     /\ command_input' = text
           ELSE /\ SetHeap(Logged(Heap, NotConnectedMsg))
                /\ command_input' = text
    /\ Ran("send_command")
    /\ UNCHANGED <<prog, ser, log_file, log_file_path, is_logging, open_log_button,
                   power_slider, time_stale, telemetry, running, sweep, now>>

\* start_logging; opens is whether open(path, 'a') returns
start_logging(opens) ==
    /\ log_file_path' = <<now>>
    /\ IF opens
       THEN /\ log_file' = "open"
            /\ is_logging' = TRUE
            /\ open_log_button' = TRUE
            /\ SetHeap(Logged(
                 [Heap EXCEPT !.disk =
                    [p \in DOMAIN disk \cup {now} |->
                       IF p \in DOMAIN disk THEN disk[p] ELSE <<>>]],
                 StartedLoggingMsg(now)))
       ELSE /\ SetHeap(Logged(Heap, OpenFailedMsg))
            /\ UNCHANGED <<log_file, is_logging, open_log_button>>

stop_logging ==
    IF log_file # "None"
    THEN /\ log_file' = "closed"
         /\ is_logging' = FALSE
         /\ SetHeap(Logged(Heap, StoppedLoggingMsg))
         /\ UNCHANGED <<log_file_path, open_log_button>>
    ELSE UNCHANGED <<logging, written, log_entries, added>>

toggle_logging(opens) ==
    /\ Dashboard
    /\ IF ~is_logging THEN start_logging(opens) ELSE stop_logging
    /\ Ran("toggle_logging")
    /\ UNCHANGED <<prog, ser, widgets, telemetry, running, sweep, now>>

\* The "Open Log" button: the file is shown by the desktop, or its absence
\* is logged
open_log_file ==
    /\ Dashboard
    /\ open_log_button
    /\ IF log_file_path # <<>> /\ log_file_path[1] \in DOMAIN disk
       THEN UNCHANGED <<written, log_entries, added, disk>>
       ELSE SetHeap(Logged(Heap, NoLogFileMsg))
    /\ Ran("open_log_file")
    /\ UNCHANGED <<prog, ser, log_file, log_file_path, is_logging, open_log_button,
                   widgets, telemetry, running, sweep, now>>

StaleAfter == 5

\* The 1000 ms timer: a second has passed
update_time_display ==
    /\ Dashboard
    /\ now' = now + 1
    /\ time_stale' = (now' - last_update_time > StaleAfter)
    /\ Ran("update_time_display")
    /\ UNCHANGED <<prog, ser, logging, power_slider, command_input, telemetry,
                   log_entries, running, sweep, written, added>>

closeEvent_serial_only ==
    /\ Dashboard
    /\ ser' = IF ser = "open" THEN "closed" ELSE ser
    /\ running' = FALSE
    /\ Ran("closeEvent")
    /\ UNCHANGED <<prog, logging, widgets, telemetry, log_entries, sweep, written,
                   now, added>>

\* closeEvent: each handle is closed when there is one and it is open
closeEvent ==
    /\ Dashboard
    /\ ser' = IF ser = "open" THEN "closed" ELSE ser
    /\ log_file' = IF log_file = "open" THEN "closed" ELSE log_file
    /\ running' = FALSE
    /\ Ran("closeEvent")
    /\ UNCHANGED <<prog, log_file_path, is_logging, open_log_button, disk, widgets,
                   telemetry, log_entries, sweep, written, now, added>>

\* process_serial_data's assignments for a parsed sample
Store(sample) ==
    /\ thrust_value' = sample.thrust
    /\ current_value' = sample.current
    /\ voltage_value' = sample.voltage
    /\ rpm_value' = sample.rpm
    /\ power_value' = sample.power
    /\ eff_value' = sample.eff
    /\ last_update_time' = now
    /\ gauges' = [k \in GaugeKeys |-> set_value(k, sample[k])]
    /\ time_label' = <<sample.time_ms.n>>

\* the exceptions process_serial_data catches itself
Swallowed == {"none", "ValueError"}

swallows(exc) == exc \in Swallowed

\* self.ser and self.ser.in_waiting, with `raw` the bytes that wait
can_read(raw) == ser # "None" /\ Len(raw) > 0

\* lines 622-634 for a non-empty line and what process_serial_data did
handle_line(line, r) ==
    /\ IF r.updated THEN Store(r.sample) ELSE UNCHANGED telemetry
    /\ IF swallows(r.exc)
       THEN SetHeap(ToLogFile(Logged(Heap, line), "RX", line))
       ELSE SetHeap(Logged(Logged(Heap, line), ReadErrorMsg(r.exc)))
    /\ last' = [event |-> "check_serial", line |-> line, called |-> r.called,
                exc |-> r.exc]

\* lines 621-626 for the decoded line
handle_decoded(line) ==
    IF line = <<>>
    THEN /\ UNCHANGED <<telemetry, written, log_entries, added, disk>>
         /\ last' = Event("check_serial")
    ELSE handle_line(line, IF is_csv_data(line) THEN process_serial_data(line)
                           ELSE NotCalled)

\* The 1 ms timer: check_serial with the bytes `raw` waiting at the port
\* (<<>>: none), which readline() returns
check_serial(raw) ==
    /\ Dashboard
    /\ IF can_read(raw)
       THEN handle_decoded(decode_line(raw))
       ELSE /\ UNCHANGED <<telemetry, written, log_entries, added, disk>>
            /\ last' = Event("check_serial")
    /\ replies' = IF can_read(raw) THEN Append(replies, raw) ELSE replies
    /\ budget' = budget - 1
    /\ UNCHANGED <<prog, ser, log_file, log_file_path, is_logging, open_log_button,
                   widgets, running, pc, args, pwm, out, exit_status, now>>

\* check_serial when readline() raises (the device went away)
check_serial_read_error ==
    /\ Dashboard
    /\ ser = "open"
    /\ SetHeap(Logged(Heap, ReadErrorMsg("SerialException")))
    /\ last' = [Event("check_serial") EXCEPT !.exc = "SerialException"]
    /\ budget' = budget - 1
    /\ UNCHANGED <<prog, ser, log_file, log_file_path, is_logging, open_log_button,
                   widgets, telemetry, running, sweep, now>>

\* ------------------------------------------------------------------------
\* meas.py: main()
\* ------------------------------------------------------------------------

PwmMin == 1000

PwmMax == 2000

Sweeping == prog = "meas"

valid_range_end_only == PwmMin <= args.end /\ args.end <= PwmMax

\* 1000 <= args.start <= 2000 and 1000 <= args.end <= 2000
valid_range ==
    /\ PwmMin <= args.start /\ args.start <= PwmMax
    /\ PwmMin <= args.end /\ args.end <= PwmMax

in_range_exclusive(v) ==
    IF args.increment > 0 THEN v < args.end ELSE v > args.end

\* pwm is a member of range(args.start, args.end + 1, args.increment), given
\* that it was reached from args.start in steps of args.increment
in_range(v) ==
    IF args.increment > 0 THEN v < args.end + 1 ELSE v > args.end + 1

Exit(status) == pc' = "exit" /\ exit_status' = <<status>>

SweepWrite(data) == written' = Append(written, [by |-> "meas", data |-> data])

SweepFrame ==
    UNCHANGED <<prog, ser, logging, widgets, telemetry, log_entries, running,
                now, added, budget>>

\* lines 17-20: the range validation
sweep_validate ==
    /\ Sweeping /\ pc = "validate"
    /\ IF valid_range
       THEN pc' = "open" /\ UNCHANGED exit_status
       ELSE Exit(1)
    /\ last' = Event("validate")
    /\ UNCHANGED <<args, pwm, out, written, replies>>
    /\ SweepFrame

\* line 24: serial.Serial(...) returns, or raises SerialException
sweep_open(opens) ==
    /\ Sweeping /\ pc = "open"
    /\ IF opens
       THEN pc' = "trigger" /\ UNCHANGED exit_status
       ELSE Exit(1)
    /\ last' = IF opens THEN Event("open") ELSE Failed("open")
    /\ UNCHANGED <<args, pwm, out, written, replies>>
    /\ SweepFrame

\* lines 25-29: the start command
sweep_trigger(write_ok) ==
    /\ Sweeping /\ pc = "trigger"
    /\ IF write_ok
       THEN /\ SweepWrite(<<"T", "\n">>)
            /\ pc' = "range"
            /\ UNCHANGED exit_status
       ELSE Exit(1) /\ UNCHANGED written
    /\ last' = IF write_ok THEN Event("trigger") ELSE Failed("trigger")
    /\ UNCHANGED <<args, pwm, out, replies>>
    /\ SweepFrame

\* line 32: range() raises ValueError for a zero step
sweep_range ==
    /\ Sweeping /\ pc = "range"
    /\ IF args.increment = 0
       THEN Exit(1) /\ UNCHANGED pwm
       ELSE pc' = "loop" /\ pwm' = args.start /\ UNCHANGED exit_status
    /\ last' = Event("range")
    /\ UNCHANGED <<args, out, written, replies>>
    /\ SweepFrame

\* lines 33-36: the step command
sweep_step_write(write_ok) ==
    /\ Sweeping /\ pc = "loop" /\ in_range(pwm)
    /\ IF write_ok
       THEN /\ SweepWrite(<<"P", " ">> \o IntToStr(pwm) \o <<"\n">>)
            /\ pc' = "read"
            /\ UNCHANGED exit_status
       ELSE Exit(1) /\ UNCHANGED written
    /\ last' = IF write_ok THEN Event("step_write") ELSE Failed("step_write")
    /\ UNCHANGED <<args, pwm, out, replies>>
    /\ SweepFrame

\* bytes.decode(): strict UTF-8
decode_utf8_strict(raw) ==
    LET text == decode_utf8_replace(raw)
    IN  [ok |-> \A i \in 1..Len(text) : text[i] # "U+FFFD", text |-> text]

keeps_any_line(line) == line # <<>>

SweepCommas == 4

\* line and line.count(',') == 4
keeps(line) == line # <<>> /\ Count(line, ",") = SweepCommas

\* lines 39-49: reset_input_buffer, readline (which returns `reply`),
\* the validation and the output
sweep_step_read(reply) ==
    /\ Sweeping /\ pc = "read"
    /\ LET d    == decode_utf8_strict(reply)
           line == Strip(d.text)
       IN  IF ~d.ok
           THEN Exit(1) /\ UNCHANGED <<out, pwm>>
           ELSE /\ out' = IF keeps(line) THEN Append(out, line \o <<"\n">>) ELSE out
                /\ pwm' = pwm + args.increment
                /\ pc' = "loop"
                /\ UNCHANGED exit_status
    /\ replies' = Append(replies, reply)
    /\ last' = [Event("step_read") EXCEPT !.line = reply]
    /\ UNCHANGED <<args, written>>
    /\ SweepFrame

\* 'P 0\n'
stop_command == <<"P", " ", "0", "\n">>

\* lines 51-55: the stop command, after the loop
sweep_final(write_ok) ==
    /\ Sweeping /\ pc = "loop" /\ ~in_range(pwm)
    /\ IF write_ok
       THEN /\ SweepWrite(stop_command)
            /\ pc' = "done"
            /\ exit_status' = <<0>>
       ELSE Exit(1) /\ UNCHANGED written
    /\ last' = IF write_ok THEN Event("final") ELSE Failed("final")
    /\ UNCHANGED <<args, pwm, out, replies>>
    /\ SweepFrame

\* ------------------------------------------------------------------------
\* Inputs
\* ------------------------------------------------------------------------

\* text.join with ','
RECURSIVE Csv(_)
Csv(fields) ==
    IF Len(fields) = 1 THEN fields[1]
    ELSE fields[1] \o <<",">> \o Csv(Tail(fields))

\* "10,6,2,5,100\n": a well-formed telemetry line
GoodLine == <<"1", "0", ",", "6", ",", "2", ",", "5", ",", "1", "0", "0", "\n">>

\* "1,2,,3,4\n": five fields, the current field empty
EmptyCurrentLine == <<"1", ",", "2", ",", ",", "3", ",", "4", "\n">>

\* "ok\n" and "1,2,3\n": not telemetry
TextLine == <<"o", "k", "\n">>

ShortLine == <<"1", ",", "2", ",", "3", "\n">>

\* what the device sends the dashboard in the main specification
RxLines == {GoodLine, EmptyCurrentLine, TextLine, ShortLine}

SliderValues == {SliderMin, SliderMax}

Deltas == {DeltaMin, DeltaMax}

\* "T" and "P 9999", typed by the operator
CommandTexts == {<<"T">>, <<"P", " ", "9", "9", "9", "9">>}

\* the command lines of the sweep tool
SweepArgs ==
    [start : {999, 1000, 1500, 2000, 2001},
     end : {999, 1000, 2000, 2001},
     increment : {0 - 500, 0, 500, 1000}]

\* what the device answers a step of the sweep: nothing before the timeout,
\* text, 4 commas, 5 commas, bytes that are not UTF-8
SweepReplies ==
    {<<>>, TextLine, GoodLine, <<"1", ",", "2", ",", "3", ",", "4", ",", "5", ",", "6", "\n">>, <<"xFF", "\n">>}

\* the handler runs of one behaviour of the dashboard
MaxEvents == 3

\* ------------------------------------------------------------------------
\* Initial states
\* ------------------------------------------------------------------------

\* CompactSerialMonitor.__init__ up to get_serial_port()
Constructed ==
    /\ log_file = "None"
    /\ log_file_path = <<>>
    /\ is_logging = FALSE
    /\ open_log_button = FALSE
    /\ power_slider = 500
    /\ command_input = <<>>
    /\ thrust_value = Zero /\ current_value = Zero /\ voltage_value = Zero
    /\ rpm_value = Zero /\ power_value = Zero /\ eff_value = Zero
    /\ gauges = [k \in GaugeKeys |-> RatOfInt(gauge_config[k].min)]
    /\ last_update_time = 0
    /\ time_label = <<>>
    /\ time_stale = FALSE
    /\ running = TRUE
    /\ disk = [p \in {} |-> <<>>]
    /\ now = 0
    /\ last = NoEvent

NoSweep ==
    /\ pc = "none"
    /\ args = [start |-> PwmMin, end |-> PwmMax, increment |-> 100]
    /\ pwm = 0
    /\ out = <<>>
    /\ exit_status = <<>>
    /\ replies = <<>>

\* get_serial_port: serial.Serial(...) returns, or raises
get_serial_port(opens) ==
    IF opens
    THEN /\ ser = "open"
         /\ log_entries = add_log(<<>>, ConnectedMsg)
         /\ added = <<ConnectedMsg>>
    ELSE /\ ser = "None"
         /\ log_entries = add_log(add_log(<<>>, ConnectErrorMsg), RestartMsg)
         /\ added = <<ConnectErrorMsg, RestartMsg>>

\* the dashboard after CompactSerialMonitor(args.port)
InitDashboard(events) ==
    /\ prog = "instruments_v6"
    /\ Constructed
    /\ \E opens \in BOOLEAN : get_serial_port(opens)
    /\ written = <<>>
    /\ budget = events
    /\ NoSweep

\* the sweep tool after parse_args()
InitSweep ==
    /\ prog = "meas"
    /\ Constructed
    /\ ser = "None" /\ log_entries = <<>> /\ added = <<>>
    /\ written = <<>>
    /\ budget = 0
    /\ pc = "validate"
    /\ args \in SweepArgs
    /\ pwm = 0
    /\ out = <<>>
    /\ exit_status = <<>>
    /\ replies = <<>>

Init == InitDashboard(MaxEvents) \/ InitSweep

\* ------------------------------------------------------------------------
\* Next-state relations
\* ------------------------------------------------------------------------

Operator ==
    \/ \E v \in SliderValues, ok \in BOOLEAN : SliderMoved(v, ok)
    \/ \E d \in Deltas, ok1, ok2 \in BOOLEAN : increase_power(d, ok1, ok2)
    \/ \E d \in Deltas, ok1, ok2 \in BOOLEAN : decrease_power(d, ok1, ok2)
    \/ \E text \in CommandTexts, ok \in BOOLEAN : send_command(text, ok)
    \/ \E opens \in BOOLEAN : toggle_logging(opens)
    \/ open_log_file
    \/ closeEvent

Timers ==
    \/ \E raw \in RxLines \cup {<<>>} : check_serial(raw)
    \/ check_serial_read_error
    \/ update_time_display

SweepNext ==
    \/ sweep_validate
    \/ \E opens \in BOOLEAN : sweep_open(opens)
    \/ \E ok \in BOOLEAN : sweep_trigger(ok)
    \/ sweep_range
    \/ \E ok \in BOOLEAN : sweep_step_write(ok)
    \/ \E reply \in SweepReplies : sweep_step_read(reply)
    \/ \E ok \in BOOLEAN : sweep_final(ok)

Next == Operator \/ Timers \/ SweepNext

Spec == Init /\ [][Next]_vars

\* ------------------------------------------------------------------------
\* The parsing specification: the dashboard fed a wide set of lines
\* ------------------------------------------------------------------------

\* thrust, current and voltage fields that are numbers
ThrustNumbers == {<<"6">>,
     <<"9", "9", "9", "9">>,
     <<"-", "3">>}

CurrentNumbers == {<<"0">>,
     <<"0", ".", "0", "0", "0", "5">>,
     <<"0", ".", "0", "0", "1">>,
     <<"2">>,
     <<"-", "1">>}

VoltageNumbers == {<<"0">>,
     <<"0", ".", "5">>,
     <<"5">>,
     <<"-", "4">>,
     <<"6", "0", "0">>}

\* "10,<thrust>,<current>,<voltage>,100\n"
NumberLines ==
    {Csv(<<<<"1", "0">>, th, c, v, <<"1", "0", "0">>>>) \o <<"\n">> :
        th \in ThrustNumbers, c \in CurrentNumbers, v \in VoltageNumbers}

\* telemetry-shaped lines with one unusual field
OddFieldLines ==
    {<<"1", ".", "5", ",", "6", ",", "2", ",", "5", ",", "1", "0", "0", "\n">>,
     <<",", "6", ",", "2", ",", "5", ",", "1", "0", "0", "\n">>,
     <<"-", "7", ",", "6", ",", "2", ",", "5", ",", "1", "0", "0", "\n">>,
     <<"1", " ", "0", ",", "6", ",", "2", ",", "5", ",", "1", "0", "0", "\n">>,
     <<"1", "0", ",", ",", "2", ",", "5", ",", "1", "0", "0", "\n">>,
     <<"1", "0", ",", "3", " ", "g", ",", "2", ",", "5", ",", "1", "0", "0", "\n">>,
     <<"1", "0", ",", "3", " ", "g", "2", ",", "2", ",", "5", ",", "1", "0", "0", "\n">>,
     <<"1", "0", ",", "3", " ", "g", ".", "f", ",", "2", ",", "5", ",", "1", "0", "0", "\n">>,
     <<"1", "0", " ", "m", "s", ",", "3", " ", "g", ",", "2", ",", "5", ",", "1", "0", "0", ",", "7", "\n">>,
     <<"1", "0", ",", "1", ".", "2", ".", "3", ",", "2", ",", "5", ",", "1", "0", "0", "\n">>,
     <<"1", "0", ",", "6", ",", ",", "5", ",", "1", "0", "0", "\n">>,
     <<"1", "0", ",", "6", ",", " ", ",", "5", ",", "1", "0", "0", "\n">>,
     <<"1", "0", ",", "6", ",", "2", ".", "1", " ", "A", ",", "5", ",", "1", "0", "0", "\n">>,
     <<"1", "0", ",", "6", ",", "2", ".", "1", " ", "A", "2", ",", "5", ",", "1", "0", "0", "\n">>,
     <<"1", "0", ",", "6", ",", "-", ",", "5", ",", "1", "0", "0", "\n">>,
     <<"1", "0", ",", "6", ",", "x", ",", "5", ",", "1", "0", "0", "\n">>,
     <<"1", "0", ",", "6", ",", "2", ",", ",", "1", "0", "0", "\n">>,
     <<"1", "0", ",", "6", ",", "2", ",", "1", "1", ".", "8", " ", "V", ",", "1", "0", "0", "\n">>,
     <<"1", "0", ",", "6", ",", "2", ",", "5", ",", "\n">>,
     <<"1", "0", ",", "6", ",", "2", ",", "5", ",", "8", "3", "0", "0", " ", "r", "p", "m", "\n">>,
     <<"1", "0", ",", "6", ",", "2", ",", "5", ",", ".", "\n">>,
     <<"1", ",", "2", ",", ",", "3", ",", "4", "\n">>,
     <<"1", "5", "0", "0", ",", "1", "2", "0", ".", "5", ",", "2", ".", "1", " ", "A", ",", "1", "1", ".", "8", " ", "V", ",", "8", "3", "0", "0", " ", "r", "p", "m", "\n">>}

\* free text, too few or too many fields, blank lines, bytes >= 0x80
OtherLines ==
    {<<"o", "k", "\n">>,
     <<"1", ",", "2", ",", "3", "\n">>,
     <<"1", ",", "2", ",", "3", ",", "4", "\n">>,
     <<"1", ",", "2", ",", "3", ",", "4", ",", "5", ",", "6", "\n">>,
     <<"a", ",", "b", ",", "c", ",", "d", ",", "e", "\n">>,
     <<",", ",", ",", ",", "\n">>,
     <<"\n">>,
     <<" ", "\r", "\n">>,
     <<"xC3", "xA9", "\n">>,
     <<"xFF", "1", ",", "2", ",", "3", ",", "4", ",", "5", "\n">>,
     <<"xC3", ",", "1", ",", "1", ",", "1", ",", "1", "\n">>}

ParseLines == NumberLines \cup OddFieldLines \cup OtherLines

MaxParseEvents == 2

InitParse == InitDashboard(MaxParseEvents)

NextParse ==
    \/ \E raw \in ParseLines : check_serial(raw)
    \/ update_time_display

SpecParse == InitParse /\ [][NextParse]_vars

\* ------------------------------------------------------------------------
\* The rolling-log specification: long runs of the dashboard over few inputs
\* ------------------------------------------------------------------------

MaxLogEvents == 7

InitLog == InitDashboard(MaxLogEvents)

NextLog ==
    \/ \E raw \in {EmptyCurrentLine, TextLine} : check_serial(raw)
    \/ \E ok \in BOOLEAN : send_command(<<"T">>, ok)
    \/ toggle_logging(TRUE)

SpecLog == InitLog /\ [][NextLog]_vars

\* ------------------------------------------------------------------------
\* The sweep specification: meas.py alone; each statement of main() is
\* followed by the next (the sleeps and the read timeout are finite)
\* ------------------------------------------------------------------------

SpecSweep == InitSweep /\ [][SweepNext]_vars /\ WF_vars(SweepNext)

\* ------------------------------------------------------------------------
\* Properties
\* ------------------------------------------------------------------------

Commas(line) == Cardinality({i \in 1..Len(line) : line[i] = ","})

\* the step just taken was a run of check_serial that read a non-empty line
ReadLine == last'.event = "check_serial" /\ last'.line # <<>>

\* C1: check_serial hands a received line to process_serial_data exactly
\* when the line holds at least 4 commas; a line with fewer commas is added
\* to the rolling log and changes no telemetry value, gauge or timestamp.
C1_CsvClassification ==
    [][ReadLine =>
          /\ last'.called <=> (Commas(last'.line) >= 4)
          /\ Commas(last'.line) < 4 =>
                /\ UNCHANGED telemetry
                /\ added' = Append(added, last'.line)
                /\ log_entries'[Len(log_entries')] = last'.line]_vars

\* a line with 2 commas was read after a sample had been stored
C1_Witness ==
    /\ last.event = "check_serial"
    /\ Commas(last.line) = 2
    /\ ~last.called
    /\ thrust_value # Zero
    /\ log_entries[Len(log_entries)] = last.line

OneThousandth == [n |-> 1, d |-> 1000]

AtLeast(a, b) == a.n * b.d >= b.n * a.d

\* a = b * c, for rationals in any form
IsProduct(a, b, c) == a.n * b.d * c.d = b.n * c.n * a.d

\* C2: the stored power is voltage x current when the stored current is at
\* least 0.001, and 0 otherwise.
C2_PowerDerivation ==
    IF AtLeast(current_value, OneThousandth)
    THEN IsProduct(power_value, voltage_value, current_value)
    ELSE power_value.n = 0

\* a parsed line with a negative current and a non-zero voltage
C2_Witness ==
    /\ last.event = "check_serial" /\ last.called /\ last.exc = "none"
    /\ current_value.n < 0
    /\ voltage_value.n # 0

\* C3: the stored efficiency is thrust / power when the stored power is at
\* least 0.001, and 0 otherwise; no line makes the division fail.
C3_EfficiencyDerivation ==
    /\ IF AtLeast(power_value, OneThousandth)
       THEN IsProduct(thrust_value, eff_value, power_value)
       ELSE eff_value.n = 0
    /\ last.exc # "ZeroDivisionError"
    /\ \A i \in 1..Len(added) : added[i] # ReadErrorMsg("ZeroDivisionError")

\* a parsed line whose current passes the power guard and whose power is 0
C3_Witness ==
    /\ last.event = "check_serial" /\ last.called /\ last.exc = "none"
    /\ AtLeast(current_value, OneThousandth)
    /\ power_value.n = 0
    /\ thrust_value.n # 0

\* `data` is "P <digits>\n"
IsPowerCommand(data) ==
    /\ Len(data) >= 4
    /\ data[1] = "P" /\ data[2] = " " /\ data[Len(data)] = "\n"
    /\ \A i \in 3..(Len(data) - 1) : data[i] \in Digits

\* the number a power command carries
PowerValueOf(data) == DigitsValue(SubSeq(data, 3, Len(data) - 1))

PowerEvents == {"slider", "increase_power", "decrease_power"}

\* the writes of the step just taken
NewWrites == (Len(written) + 1)..Len(written')

NewEntries == (Len(added) + 1)..Len(added')

\* C4: what send_power_value writes is "P <slider + 1000>\n" for the slider
\* value the handler leaves, a value in [1000, 2000]; on an open connection
\* every slider move and every press writes it or logs a send error.
C4_PowerCommandEncoding ==
    [][last'.event \in PowerEvents =>
          /\ power_slider' \in 0..1000
          /\ \A i \in NewWrites :
                /\ written'[i].by = "send_power_value"
                /\ IsPowerCommand(written'[i].data)
                /\ PowerValueOf(written'[i].data) = power_slider' + 1000
                /\ PowerValueOf(written'[i].data) \in 1000..2000
          /\ ser = "open" =>
                \/ NewWrites # {}
                \/ \E i \in NewEntries : added'[i] = PowerSendErrorMsg]_vars

\* '+' pressed with the slider at 1000: "P 2000\n" is written
C4_Witness ==
    /\ last.event = "increase_power"
    /\ power_slider = 1000
    /\ written # <<>>
    /\ written[Len(written)].by = "send_power_value"
    /\ PowerValueOf(written[Len(written)].data) = 2000
    /\ Len(written) >= 2

PowerWriters == {"send_power_value", "meas"}

\* C5 as stated: every power command written by send_power_value or by the
\* sweep tool carries a value in [1000, 2000].
C5_AllPowerCommandsInRange ==
    \A i \in 1..Len(written) :
        (written[i].by \in PowerWriters /\ IsPowerCommand(written[i].data))
            => PowerValueOf(written[i].data) \in 1000..2000

\* C5 as amended: every power command written by send_power_value or by the
\* sweep tool carries a value in [1000, 2000], except the "P 0\n" the sweep
\* tool writes last, after its loop.
C5_PowerCommandsInRangeButStop ==
    \A i \in 1..Len(written) :
        (written[i].by \in PowerWriters /\ IsPowerCommand(written[i].data))
            => \/ PowerValueOf(written[i].data) \in 1000..2000
               \/ /\ written[i].by = "meas"
                  /\ i = Len(written)
                  /\ pc = "done"
                  /\ PowerValueOf(written[i].data) = 0

\* a completed sweep that sent at least two steps, the last at 2000
C5_Witness ==
    /\ prog = "meas" /\ pc = "done"
    /\ Len(written) >= 4
    /\ PowerValueOf(written[Len(written) - 1].data) = 2000
    /\ PowerValueOf(written[Len(written)].data) = 0

\* C6: the rolling log holds at most 10 entries: the last min(n, 10) of the
\* n entries passed to add_log, in the order they were added.
C6_RollingLog ==
    /\ Len(log_entries) <= 10
    /\ Len(log_entries) = IF Len(added) < 10 THEN Len(added) ELSE 10
    /\ \A i \in 1..Len(log_entries) :
          log_entries[i] = added[Len(added) - Len(log_entries) + i]

\* more than 10 entries were added, of three kinds at least
C6_Witness ==
    /\ Len(added) > 10
    /\ Cardinality({added[i] : i \in 1..Len(added)}) >= 3
    /\ log_entries[1] # added[1]

\* C7 as stated: a telemetry-shaped line whose fields do not parse adds no
\* entry to the rolling log after the received line itself (and stores
\* nothing).
C7_MalformedLineIsSilent ==
    (last.event = "check_serial" /\ last.called /\ last.exc # "none")
        => added[Len(added)] = last.line

NotConnectedMsgs == {NotConnectedMsg, NotConnectedPowerMsg}

\* C8: with no serial connection (ser is None) the dashboard stays that
\* way; a send_command or send_power_value writes nothing to the port or to a
\* log file and adds "Not connected ..." to the rolling log; check_serial
\* changes nothing.
C8_NotConnected ==
    [][(prog = "instruments_v6" /\ ser = "None") =>
          /\ ser' = "None"
          /\ written' = written
          /\ last'.event \in PowerEvents \cup {"send_command"} =>
                /\ \A p \in DOMAIN disk : disk'[p] = disk[p]
                /\ DOMAIN disk' = DOMAIN disk
                /\ NewEntries # {}
                /\ \A i \in NewEntries : added'[i] \in NotConnectedMsgs
                /\ log_entries'[Len(log_entries')] \in NotConnectedMsgs
                /\ UNCHANGED telemetry
          /\ last'.event = "check_serial" =>
                UNCHANGED <<telemetry, logging, widgets, log_entries, added,
                            running, now>>]_vars

\* '+' pressed with no connection while a session log is open
C8_Witness ==
    /\ ser = "None"
    /\ is_logging /\ log_file = "open"
    /\ last.event = "increase_power"
    /\ added[Len(added)] = NotConnectedPowerMsg
    /\ written = <<>>

OutOfRange(v) == v < 1000 \/ v > 2000

\* C9: the sweep tool exits with status 1, having opened no port and written
\* nothing, when --start or --end is outside [1000, 2000]; it exits with
\* status 1 when the serial port raises.
C9_SweepFatalErrors ==
    prog = "meas" =>
        /\ (pc # "validate" /\ (OutOfRange(args.start) \/ OutOfRange(args.end)))
              => /\ pc = "exit" /\ exit_status = <<1>>
                 /\ last.event = "validate"
                 /\ written = <<>> /\ out = <<>> /\ replies = <<>>
        /\ last.exc = "SerialException" => pc = "exit" /\ exit_status = <<1>>
        /\ exit_status # <<>> => pc \in {"exit", "done"}

\* --end 2001 with a valid --start: the tool has exited with status 1
C9_Witness ==
    /\ prog = "meas"
    /\ args.start = 1500 /\ args.end = 2001
    /\ pc = "exit" /\ exit_status = <<1>>

\* the step commands a sweep has written
StepCommands ==
    {i \in 1..Len(written) :
        IsPowerCommand(written[i].data) /\ PowerValueOf(written[i].data) # 0}

\* C10 as stated: a completed sweep has written one output line for each
\* step command it sent.
C10_OneLinePerStep ==
    (prog = "meas" /\ pc = "done") => Len(out) = Cardinality(StepCommands)

\* C10 as amended: a completed sweep has written one output line for each
\* step whose read returned a line with exactly 4 commas, and none for any
\* other step (an empty read, text, more than 4 commas); each output line
\* holds exactly 4 commas.
C10_OneLinePerValidReply ==
    (prog = "meas" /\ pc = "done") =>
        /\ Len(replies) = Cardinality(StepCommands)
        /\ Len(out) = Cardinality({i \in 1..Len(replies) : Commas(replies[i]) = 4})
        /\ \A i \in 1..Len(out) : Commas(out[i]) = 4 /\ out[i][Len(out[i])] = "\n"

\* a completed sweep of three steps with one line kept
C10_Witness ==
    /\ prog = "meas" /\ pc = "done"
    /\ Len(replies) = 3
    /\ Len(out) = 1

\* the log file of the running session
SessionFile == log_file_path[1]

\* the records the step just taken appended to the session's log file
NewRecords ==
    SubSeq(disk'[SessionFile], Len(disk[SessionFile]) + 1, Len(disk'[SessionFile]))

Senders == PowerEvents \cup {"send_command"}

\* C11 as stated: while session logging is enabled, a step keeps the records
\* the log file holds and appends one "RX: <line>" record for a received
\* line, whether or not it parses, and one "TX: Sent: <cmd>" record for
\* each command written to the port, in the order of the writes.
C11_AllTrafficLogged ==
    [][(prog = "instruments_v6" /\ is_logging /\ log_file = "open") =>
          /\ SubSeq(disk'[SessionFile], 1, Len(disk[SessionFile])) = disk[SessionFile]
          /\ ReadLine =>
                NewRecords = <<[ts |-> now, dir |-> "RX", text |-> last'.line]>>
          /\ last'.event \in Senders =>
                NewRecords =
                    [i \in 1..(Len(written') - Len(written)) |->
                        [ts |-> now, dir |-> "TX",
                         text |-> SentMsg(written'[Len(written) + i].data)]]]_vars

\* the comma-separated fields of a received line
FieldsOf(line) == SplitComma(line)

\* the number a field leads with, when the field is cut at its first space
LeadingInt(field) == py_int(SplitWords(field)[1])

LeadingFloat(field) == py_float(SplitWords(field)[1])

\* what follows the first word of a field is a non-numeric suffix: words
\* that start with no digit, '.' or '-'
SuffixIsText(field) ==
    \A w \in 2..Len(SplitWords(field)) :
        SplitWords(field)[w][1] \notin Digits \cup {".", "-"}

\* every one of the first five fields is a number, alone or followed by a
\* space and a non-numeric suffix
HasLeadingNumbers(f) ==
    /\ Len(f) >= 5
    /\ \A i \in 1..5 : SplitWords(f[i]) # <<>> /\ SuffixIsText(f[i])
    /\ LeadingInt(f[1]).ok
    /\ \A i \in 2..5 : LeadingFloat(f[i]).ok

\* C12 as stated: a telemetry-shaped line each of whose first five fields
\* leads with a number (an integer for the time) is parsed to those leading
\* numbers, whatever non-numeric suffix follows the first space of a field
\* and whatever fields come after the fifth, for the time, thrust, current,
\* voltage and rpm fields alike.
C12_UniformTruncation ==
    (/\ last.event = "check_serial" /\ last.called
     /\ HasLeadingNumbers(FieldsOf(last.line)))
        => /\ last.exc = "none"
           /\ time_label = <<LeadingInt(FieldsOf(last.line)[1]).val.n>>
           /\ thrust_value = LeadingFloat(FieldsOf(last.line)[2]).val
           /\ current_value = LeadingFloat(FieldsOf(last.line)[3]).val
           /\ voltage_value = LeadingFloat(FieldsOf(last.line)[4]).val
           /\ rpm_value = LeadingFloat(FieldsOf(last.line)[5]).val

\* the step just taken was a run of check_serial in which readline() returned
Polled == last'.event = "check_serial" /\ Len(replies') = Len(replies) + 1

\* the bytes that readline() returned in the step just taken
RawRead == replies'[Len(replies')]

IsBlank(raw) == \A i \in 1..Len(raw) : raw[i] \in Whitespace

IsAscii(raw) == \A i \in 1..Len(raw) : raw[i] \notin HighBytes

\* C13: whatever bytes the serial read returns, check_serial ends with the
\* port and the window as they were, so that the next poll runs; the line it
\* shows holds no undecoded byte: it is the stripped text for ASCII bytes and
\* the UTF-8 text with replacement characters otherwise (the hex dump is
\* never needed); an exception raised while the line is handled is logged
\* as a read error; blank bytes add no log entry and change nothing.
C13_ReaderNeverCrashes ==
    [][Polled =>
          /\ ser' = ser /\ running' = running
          /\ \A i \in 1..Len(last'.line) : last'.line[i] \notin HighBytes
          /\ IsAscii(RawRead) => last'.line = Strip(RawRead)
          /\ last'.exc \notin Swallowed =>
                added'[Len(added')] = ReadErrorMsg(last'.exc)
          /\ IF IsBlank(RawRead)
             THEN /\ last'.line = <<>>
                  /\ UNCHANGED <<telemetry, logging, widgets, log_entries, added,
                                 written, now>>
             ELSE /\ last'.line # <<>>
                  /\ added'[Len(added) + 1] = last'.line]_vars

\* bytes that are not UTF-8 were read, shown with a replacement character,
\* and the next poll parsed a telemetry line
C13_Witness ==
    /\ Len(replies) = 2
    /\ ~IsAscii(replies[1])
    /\ \E i \in 1..Len(added) :
          /\ i < Len(added)
          /\ \E j \in 1..Len(added[i]) : added[i][j] = "U+FFFD"
    /\ last.event = "check_serial" /\ last.called /\ last.exc = "none"
    /\ thrust_value # Zero

Handles == {"None", "open", "closed"}

\* C14: closeEvent runs from every state of the dashboard and leaves no
\* handle open: an open serial port and an open log file are closed, an
\* absent or already closed one is left as it is, and the log file keeps
\* its records.
C14_ShutdownClosesHandles ==
    [][last'.event = "closeEvent" =>
          /\ ser \in Handles /\ log_file \in Handles
          /\ ser' = (IF ser = "open" THEN "closed" ELSE ser)
          /\ log_file' = (IF log_file = "open" THEN "closed" ELSE log_file)
          /\ ser' # "open" /\ log_file' # "open"
          /\ ~running'
          /\ UNCHANGED <<disk, log_entries, added, written>>]_vars

\* the window was closed on an open port while a session log was being
\* written
C14_Witness ==
    /\ last.event = "closeEvent"
    /\ ser = "closed"
    /\ log_file = "closed" /\ is_logging
    /\ \E p \in DOMAIN disk : disk[p] # <<>>

\* the step commands written so far: all writes but the start command and,
\* on a completed run, the stop command
StepCount ==
    IF written = <<>> THEN 0
    ELSE Len(written) - 1 - (IF pc = "done" THEN 1 ELSE 0)

\* the i-th step command of a sweep
StepCommand(i) ==
    <<"P", " ">> \o IntToStr(args.start + (i - 1) * args.increment) \o <<"\n">>

\* len(range(start, end + 1, increment)) for a non-zero increment
RangeLen ==
    IF args.increment > 0
    THEN IF args.start > args.end THEN 0
         ELSE (args.end - args.start) \div args.increment + 1
    ELSE IF args.start <= args.end + 1 THEN 0
         ELSE (args.start - args.end - 2) \div (0 - args.increment) + 1

\* the writes are 'T\n', then the step commands from start in steps of
\* increment, then, on a completed run, 'P 0\n'; one read follows each step
\* command before the next write
SweepWritesInOrder ==
    /\ written # <<>> => written[1].data = <<"T", "\n">>
    /\ \A i \in 1..StepCount : written[i + 1].data = StepCommand(i)
    /\ Len(replies) = StepCount - (IF pc = "read" THEN 1 ELSE 0)
    /\ pc = "done" =>
          /\ written[Len(written)].data = stop_command
          /\ exit_status = <<0>>

\* C15 as stated: the writes of a sweep are in order and every step value is
\* at most --end.
C15_StepValuesUpToEnd ==
    prog = "meas" =>
        /\ SweepWritesInOrder
        /\ \A i \in 1..StepCount :
              args.start + (i - 1) * args.increment <= args.end

\* C15 as amended: the writes of a sweep are 'T\n', then 'P <pwm>\n' for the
\* members of range(start, end + 1, increment) in order (rising up to end
\* for a positive increment, falling while above end + 1 for a negative
\* one), each followed by one read before the next write, and last 'P 0\n';
\* a completed run has sent every member of the range, and every run ends.
C15_SweepOrder ==
    /\ [](prog = "meas" =>
            /\ SweepWritesInOrder
            /\ StepCount > 0 => args.increment # 0 /\ StepCount <= RangeLen
            /\ \A i \in 1..StepCount :
                  IF args.increment > 0
                  THEN args.start + (i - 1) * args.increment <= args.end
                  ELSE args.start + (i - 1) * args.increment > args.end + 1
            /\ pc = "done" => StepCount = RangeLen)
    /\ <>(pc \in {"done", "exit"})

\* a completed falling sweep from 2000 to 1000 in steps of 500: 'P 2000' and
\* 'P 1500' were sent, each answered, then 'P 0'
C15_Witness ==
    /\ prog = "meas" /\ pc = "done"
    /\ args.start = 2000 /\ args.end = 1000 /\ args.increment < 0
    /\ StepCount = 2 /\ Len(replies) = 2
    /\ PowerValueOf(written[3].data) = 1500
    /\ written[4].data = stop_command

\* the value last stored for each gauge's channel
StoredValue ==
    [thrust |-> thrust_value, current |-> current_value,
     voltage |-> voltage_value, rpm |-> rpm_value, power |-> power_value,
     eff |-> eff_value]

\* lo <= a <= hi, for integers lo, hi and a rational a
Within(a, lo, hi) == lo * a.d <= a.n /\ a.n <= hi * a.d

\* C16: every gauge's value lies in [min_val, max_val], its needle ratio in
\* [0, 1] and its needle angle in [180, 360] degrees, whatever values were
\* parsed; a parsed value in the gauge's range is the gauge's value, one
\* below it shows as min_val and one above it as max_val.
C16_GaugeClamped ==
    \A k \in GaugeKeys :
        /\ Within(gauges[k], gauge_config[k].min, gauge_config[k].max)
        /\ Within(value_ratio(k, gauges[k]), 0, 1)
        /\ Within(needle_angle(k, gauges[k]), 180, 360)
        /\ IF Within(StoredValue[k], gauge_config[k].min, gauge_config[k].max)
           THEN gauges[k] = StoredValue[k]
           ELSE IF StoredValue[k].n < gauge_config[k].min * StoredValue[k].d
           THEN gauges[k] = RatOfInt(gauge_config[k].min)
           ELSE gauges[k] = RatOfInt(gauge_config[k].max)

\* a second sample with thrust 9999 (above 5000), a negative current and a
\* voltage in range was stored
C16_Witness ==
    /\ Len(replies) = 2
    /\ last.event = "check_serial" /\ last.called /\ last.exc = "none"
    /\ thrust_value = RatOfInt(9999) /\ gauges["thrust"] = RatOfInt(5000)
    /\ current_value.n < 0 /\ gauges["current"] = Zero
    /\ voltage_value = RatOfInt(5) /\ gauges["voltage"] = RatOfInt(5)
    /\ needle_angle("thrust", gauges["thrust"]) = RatOfInt(360)
    /\ needle_angle("voltage", gauges["voltage"]) = RatOfInt(210)

Presses == {"increase_power", "decrease_power"}

\* C17 as stated: on an open connection whose writes succeed, a press of
\* '+' or '-' writes exactly one power command, the one for the slider value
\* after the press, and one TX record when a session log is written.
C17_OneCommandPerPress ==
    [][(last'.event \in Presses /\ ser = "open"
          /\ \A i \in NewEntries : added'[i] # PowerSendErrorMsg) =>
          /\ Len(written') = Len(written) + 1
          /\ written'[Len(written')].data = power_command(power_slider')
          /\ (is_logging /\ log_file = "open") => Len(NewRecords) = 1]_vars

=============================================================================
